---- MODULE Spec2Model ----
(***************************************************************************)
(* Scrubby Zoom (scrubby_zoom.py): the event filter, the mode life cycle,  *)
(* the drag-to-zoom mapping and the zoom estimator.                        *)
(*                                                                         *)
(* Scales, DPIs and UI percentages are exact rationals <<n, d>> with d > 0 *)
(* in lowest terms; Python's None is <<0, 0>>.  Pointer positions are      *)
(* drawn from a grid of whole multiples of zoom_sensitivity, where         *)
(* 2.0 ** (delta_x / zoom_sensitivity) is an exact power of two.           *)
(* Every call into the host (Krita / Qt) is answered by a value chosen     *)
(* with \E in the action that models the handler making the call.          *)
(***************************************************************************)
EXTENDS Integers, Sequences, FiniteSets, TLC

VARIABLES zoom_mode_active, is_dragging, drag_start_x, active_view,
          initial_zoom_scale, last_set_zoom_scale, document_zoom_cache,
          filter_installed, override_cursors,
          install_calls,
          last_event, ret, pushed, move_x, est, drag_dropped, drag_doc,
          ui_scan, icon_files, device_pixel_ratio, pixmap_null, zoom_cursor

pluginVars == <<zoom_mode_active, is_dragging, drag_start_x, active_view,
                initial_zoom_scale, last_set_zoom_scale, document_zoom_cache,
                filter_installed>>

vars == <<zoom_mode_active, is_dragging, drag_start_x, active_view,
          initial_zoom_scale, last_set_zoom_scale, document_zoom_cache,
          filter_installed, override_cursors, install_calls,
          last_event, ret, pushed, move_x, est, drag_dropped, drag_doc,
          ui_scan, icon_files, device_pixel_ratio, pixmap_null, zoom_cursor>>

\* The widgets' texts and the window title read by one UI scan with its
\* result, the icon files on disk, the screen's scale, whether the chosen
\* file fails to load as an image, and the cursor built from them.
envVars == <<ui_scan, icon_files, device_pixel_ratio, pixmap_null, zoom_cursor>>

(***************************************************************************)
(* Bounds of the model.                                                    *)
(***************************************************************************)
MaxOctave == 1

\* The largest number of candidate widgets of one UI scan.
MaxCandidates == 2

\* The largest screen scale, in halves (10 is a devicePixelRatio of 5.0).
MaxScreenScaleHalves == 10

(***************************************************************************)
(* Rational arithmetic.                                                    *)
(***************************************************************************)
None == <<0, 0>>

RECURSIVE Gcd(_, _)
Gcd(a, b) == IF b = 0 THEN a ELSE Gcd(b, a % b)

AbsInt(i) == IF i < 0 THEN 0 - i ELSE i

Rat(n, d) ==
    LET g == Gcd(AbsInt(n), AbsInt(d))
        s == IF d < 0 THEN 0 - 1 ELSE 1
    IN  <<(s * n) \div g, (s * d) \div g>>

Lt(a, b)  == a[1] * b[2] < b[1] * a[2]
Leq(a, b) == a[1] * b[2] <= b[1] * a[2]
Sub(a, b) == Rat(a[1] * b[2] - b[1] * a[2], a[2] * b[2])
Mul(a, b) == Rat(a[1] * b[1], a[2] * b[2])
Div(a, b) == Rat(a[1] * b[2], a[2] * b[1])
Abs(a)    == <<AbsInt(a[1]), a[2]>>

Zero == <<0, 1>>

RECURSIVE TwoTo(_)
TwoTo(k) == IF k = 0 THEN 1 ELSE 2 * TwoTo(k - 1)

(***************************************************************************)
(* Program constants.                                                      *)
(***************************************************************************)
REFERENCE_DPI == <<72, 1>>
zoom_sensitivity == 150
MinScale == <<1, 100>>
MaxScale == <<256, 1>>
DpiEpsilon == <<1, 1000>>
LargeZoom == <<10, 1>>

(***************************************************************************)
(* What the host can answer.                                               *)
(***************************************************************************)
NoView == "None"
Views == {"view1"}
NoDoc == "None"
DocIds == {"a.kra", "untitled_1"}

XGrid == {k * zoom_sensitivity : k \in (0 - MaxOctave)..MaxOctave}
PressXs == {0 - zoom_sensitivity, 0}

\* The host's answers during a drag start of the state machine.
HostZoomLevels == {<<1, 200>>, <<100, 1>>}
HostResolutions == {<<72, 1>>}
HostUiScales == {None}

\* The inputs of the estimator checked on its own.
RawZooms == {None, <<0, 1>>, <<0 - 1, 1>>, <<1, 50>>, <<1, 1>>, <<2, 1>>,
             <<25, 6>>, <<11, 1>>, <<125, 3>>, <<1000, 1>>}
DocDpis  == {None, <<0, 1>>, <<0 - 72, 1>>, <<72, 1>>, <<144, 1>>,
             <<300, 1>>, <<144000, 1>>}
UiScales == {None, <<0, 1>>, <<2, 3>>, <<1, 1>>, <<3, 2>>}

NoQuery == [called |-> FALSE, ui |-> None, raw |-> None, dpi |-> None,
            corrected |-> None, cached |-> None, result |-> None]

Ev(type, button, autorepeat, has_doc, has_pos) ==
    [type |-> type, button |-> button, autorepeat |-> autorepeat,
     has_doc |-> has_doc, has_pos |-> has_pos]

NoEvent == Ev("init", "None", FALSE, FALSE, FALSE)

(***************************************************************************)
(* Zoom estimator.                                                         *)
(***************************************************************************)
\* _doc_dpi: the document's resolution if readable and positive, else 72.
doc_dpi(view, resolution) ==
    IF view # NoView /\ resolution # None /\ Lt(Zero, resolution)
    THEN resolution
    ELSE REFERENCE_DPI

\* _canvas_zoom_raw: canvas.zoomLevel(), None without a view or a canvas.
canvas_zoom_raw(view, zoomLevel) ==
    IF view # NoView THEN zoomLevel ELSE None

\* _canvas_zoom_corrected: raw / (dpi / 72).
canvas_zoom_corrected(raw_zoom, dpi) ==
    LET factor == Div(dpi, REFERENCE_DPI)
    IN  IF Leq(factor, Zero) THEN raw_zoom ELSE Div(raw_zoom, factor)

\* closer_to_ui with a strict comparison: a tie keeps raw.
closer_to_ui_strict(raw, corrected, ui_scale) ==
    LET dr == Abs(Sub(raw, ui_scale))
        dc == Abs(Sub(corrected, ui_scale))
    IN  IF Lt(dc, dr) THEN corrected ELSE raw

\* lines 323-326: with a positive UI scale, the closer of raw and corrected.
closer_to_ui(raw, corrected, ui_scale) ==
    LET dr == Abs(Sub(raw, ui_scale))
        dc == Abs(Sub(corrected, ui_scale))
    IN  IF Leq(dc, dr) THEN corrected ELSE raw

\* no_ui_heuristic with its two guards tested in the other order.
no_ui_heuristic_swapped(raw, corrected, dpi) ==
    IF Lt(DpiEpsilon, Abs(Sub(dpi, REFERENCE_DPI)))
    THEN IF Lt(corrected, MinScale) /\ Leq(MinScale, raw) THEN raw
         ELSE corrected
    ELSE raw

\* lines 331-340: no usable UI scale.
no_ui_heuristic(raw, corrected, dpi) ==
    IF Lt(DpiEpsilon, Abs(Sub(dpi, REFERENCE_DPI)))
    THEN IF Lt(LargeZoom, raw) /\ Leq(corrected, LargeZoom) THEN corrected
         ELSE IF Lt(corrected, MinScale) /\ Leq(MinScale, raw) THEN raw
         ELSE corrected
    ELSE raw

\* cached_or_default that asks the UI scale before the cache.
ui_or_cached(ui_scale, doc_id, cache) ==
    IF ui_scale # None THEN ui_scale
    ELSE IF doc_id # NoDoc /\ cache[doc_id] # None THEN cache[doc_id]
    ELSE <<1, 1>>

\* lines 312-317: no raw value; the cache, then the UI scale, then 1.0.
cached_or_default(ui_scale, doc_id, cache) ==
    IF doc_id # NoDoc /\ cache[doc_id] # None
    THEN cache[doc_id]
    ELSE IF ui_scale # None THEN ui_scale ELSE <<1, 1>>

\* _get_current_zoom_scale(view); ui_scale, zoomLevel, resolution and doc_id
\* are the host's answers to _zoom_scale_from_ui, canvas.zoomLevel,
\* doc.resolution and _get_document_id.
get_current_zoom_scale(view, ui_scale, zoomLevel, resolution, doc_id, cache) ==
    LET raw == canvas_zoom_raw(view, zoomLevel)
        dpi == doc_dpi(view, resolution)
        corrected == canvas_zoom_corrected(raw, dpi)
    IN  IF raw = None
        THEN cached_or_default(ui_scale, doc_id, cache)
        ELSE IF ui_scale # None /\ Lt(Zero, ui_scale)
             THEN closer_to_ui(raw, corrected, ui_scale)
             ELSE no_ui_heuristic(raw, corrected, dpi)

\* The record of one estimator query, kept for the properties below.
Query(view, ui_scale, zoomLevel, resolution, doc_id, cache) ==
    LET raw == canvas_zoom_raw(view, zoomLevel)
        dpi == doc_dpi(view, resolution)
    IN  [called |-> TRUE, ui |-> ui_scale, raw |-> raw, dpi |-> dpi,
         corrected |-> IF raw = None THEN None
                       ELSE canvas_zoom_corrected(raw, dpi),
         cached |-> IF doc_id # NoDoc THEN cache[doc_id] ELSE None,
         result |-> get_current_zoom_scale(view, ui_scale, zoomLevel,
                                           resolution, doc_id, cache)]

(***************************************************************************)
(* Drag-to-zoom mapping.                                                   *)
(***************************************************************************)
\* 2.0 ** (float(delta_x) / float(self.zoom_sensitivity)), for delta_x a
\* whole multiple of zoom_sensitivity.
\* A zoom factor that grows linearly with the displacement.
zoom_factor_linear(delta_x) ==
    LET k == delta_x \div zoom_sensitivity
    IN  IF k >= 0 THEN <<1 + k, 1>> ELSE <<1, 1 - k>>

zoom_factor(delta_x) ==
    LET k == delta_x \div zoom_sensitivity
    IN  IF k >= 0 THEN <<TwoTo(k), 1>> ELSE <<1, TwoTo(0 - k)>>

\* clamp_scale without the upper bound.
clamp_scale_no_min(new_scale) ==
    IF Lt(MinScale, new_scale) THEN new_scale ELSE MinScale

\* max(0.01, min(256.0, new_scale)) with Python's min and max.
clamp_scale(new_scale) ==
    LET m == IF Lt(new_scale, MaxScale) THEN new_scale ELSE MaxScale
    IN  IF Lt(MinScale, m) THEN m ELSE MinScale

new_zoom_scale(initial, start_x, x) ==
    clamp_scale(Mul(initial, zoom_factor(x - start_x)))

(***************************************************************************)
(* The UI scan: _zoom_scale_from_ui.  A text is a sequence of characters.  *)
(***************************************************************************)
Digits == {"0", "1", "2", "3", "4", "5", "6", "7", "8", "9"}

DigitValue(c) ==
    CASE c = "0" -> 0 [] c = "1" -> 1 [] c = "2" -> 2 [] c = "3" -> 3
      [] c = "4" -> 4 [] c = "5" -> 5 [] c = "6" -> 6 [] c = "7" -> 7
      [] c = "8" -> 8 [] c = "9" -> 9

\* The exception float() raises, and a regular expression that does not match.
ValueError == <<1, 0>>
NoMatch == <<"no match">>

\* A widget whose text() raises or answers None.
NoText == <<"no text">>

\* \s* from position i: the position of the first character that is no space.
RECURSIVE SkipSpaces(_, _)
SkipSpaces(text, i) ==
    IF i <= Len(text) /\ text[i] = " " THEN SkipSpaces(text, i + 1) ELSE i

\* [\d.]+ from position i: the position after the longest run of digits and
\* dots (i itself when there is none).
RECURSIVE RunEnd(_, _)
RunEnd(text, i) ==
    IF i <= Len(text) /\ (text[i] \in Digits \/ text[i] = ".")
    THEN RunEnd(text, i + 1) ELSE i

\* re.match(r'^\s*([\d.]+)\s*%\s*$', text): group 1, or NoMatch.
match_percent(text) ==
    LET a == SkipSpaces(text, 1)
        b == RunEnd(text, a)
        c == SkipSpaces(text, b)
    IN  IF b > a /\ c <= Len(text) /\ text[c] = "%"
           /\ SkipSpaces(text, c + 1) = Len(text) + 1
        THEN SubSeq(text, a, b - 1)
        ELSE NoMatch

\* Whether r'@\s*([\d.]+)\s*%' matches the title at position i.
TitleMatchAt(title, i) ==
    LET a == SkipSpaces(title, i + 1)
        b == RunEnd(title, a)
        c == SkipSpaces(title, b)
    IN  title[i] = "@" /\ b > a /\ c <= Len(title) /\ title[c] = "%"

\* re.search(r'@\s*([\d.]+)\s*%', title): group 1 of the leftmost match.
search_title(title) ==
    LET hits == {i \in 1..Len(title) : TitleMatchAt(title, i)}
    IN  IF hits = {} THEN NoMatch
        ELSE LET i == CHOOSE h \in hits : \A g \in hits : h <= g
                 a == SkipSpaces(title, i + 1)
             IN  SubSeq(title, a, RunEnd(title, a) - 1)

RECURSIVE DigitsValue(_)
DigitsValue(ds) ==
    IF ds = <<>> THEN 0
    ELSE 10 * DigitsValue(SubSeq(ds, 1, Len(ds) - 1)) + DigitValue(ds[Len(ds)])

RECURSIVE Pow10(_)
Pow10(k) == IF k = 0 THEN 1 ELSE 10 * Pow10(k - 1)

IsDigit(c) == c \in Digits

\* float(token) for a token of digits and dots: ValueError for more than one
\* dot or no digit.
float_of(token) ==
    LET dots == {i \in 1..Len(token) : token[i] = "."}
        ds   == SelectSeq(token, IsDigit)
    IN  IF Cardinality(dots) > 1 \/ ds = <<>> THEN ValueError
        ELSE IF dots = {} THEN <<DigitsValue(ds), 1>>
        ELSE LET dot == CHOOSE i \in dots : TRUE
             IN  Rat(DigitsValue(ds), Pow10(Len(token) - dot))

\* read_percent_text: None for a widget without text or without a percent
\* token; the float() of line 281 is outside the function's try.
read_percent_text(widget) ==
    IF widget = NoText \/ widget = <<>> THEN None
    ELSE LET m == match_percent(widget)
         IN  IF m = NoMatch THEN None ELSE float_of(m)

\* The loop of lines 284-287: the first candidate with a value, as a scale;
\* ValueError when read_percent_text raises before one is found.
RECURSIVE first_percent(_, _)
first_percent(candidates, i) ==
    IF i > Len(candidates) THEN None
    ELSE LET val == read_percent_text(candidates[i])
         IN  IF val = ValueError THEN ValueError
             ELSE IF val # None THEN Div(val, <<100, 1>>)
             ELSE first_percent(candidates, i + 1)

\* Lines 289-293: the scale in the window title, ValueError when float()
\* raises.
title_percent(title) ==
    LET m == search_title(title)
    IN  IF m = NoMatch THEN None
        ELSE LET val == float_of(m)
             IN  IF val = ValueError THEN ValueError
                 ELSE Div(val, <<100, 1>>)

\* _zoom_scale_from_ui; candidates are the texts of the candidate widgets
\* collected by lines 245-261, in order.  Every exception ends in the
\* except of line 295.
zoom_scale_from_ui(has_window, candidates, title) ==
    IF ~has_window THEN None
    ELSE LET val == first_percent(candidates, 1)
         IN  IF val = ValueError THEN None
             ELSE IF val # None THEN val
             ELSE LET t == title_percent(title)
                  IN  IF t = ValueError THEN None ELSE t

Texts ==
    { <<>>, NoText,
      <<"5", "0", "%">>,
      <<" ", "2", "5", " ", "%">>,
      <<"1", "2", ".", "5", "%">>,
      <<"0", "%">>,
      <<"1", ".", "2", ".", "3", "%">>,
      <<".", "%">>,
      <<"7", "5">>,
      <<"o", "n">> }

Titles ==
    { <<>>,
      <<"a", " ", "@", " ", "2", "0", "0", "%">>,
      <<"a", "@", "1", ".", "2", ".", "3", "%">>,
      <<"@", "x", "@", "4", "0", "%">>,
      <<"a", "%">> }

CandidateLists == UNION {[1..n -> Texts] : n \in 0..MaxCandidates}

NoScan == [called |-> FALSE, has_window |-> FALSE, candidates |-> <<>>,
           title |-> <<>>, result |-> None]

(***************************************************************************)
(* The cursor: _get_cursor_icon_path and _load_cursor.                     *)
(***************************************************************************)
available_sizes == <<24, 32, 48, 64, 96>>

AllSizes == {available_sizes[i] : i \in 1..Len(available_sizes)}

\* Lines 114-118: the screen's devicePixelRatio, 1.0 without a screen.
screen_dpr(dpr) == IF dpr = None THEN <<1, 1>> ELSE dpr

\* int(24 * dpr)
target_physical_size(dpr) == (24 * dpr[1]) \div dpr[2]

\* Lines 121-125: the first listed size >= the target, else the last one.
RECURSIVE first_at_least(_, _)
first_at_least(i, target) ==
    IF i > Len(available_sizes) THEN available_sizes[Len(available_sizes)]
    ELSE IF available_sizes[i] >= target THEN available_sizes[i]
    ELSE first_at_least(i + 1, target)

\* Lines 128-134: the first listed size whose file exists, else best.
RECURSIVE first_present(_, _, _)
first_present(i, files, best) ==
    IF i > Len(available_sizes) THEN best
    ELSE IF available_sizes[i] \in files THEN available_sizes[i]
    ELSE first_present(i + 1, files, best)

\* The size of the icon _get_cursor_icon_path chooses; its file exists
\* exactly when the size is in files.
cursor_icon_size(files, dpr) ==
    LET best == first_at_least(1, target_physical_size(dpr))
    IN  IF best \in files THEN best ELSE first_present(1, files, best)

SystemCursor == [kind |-> "SizeHorCursor", size |-> 0, hotspot |-> 0]
NoCursor == [kind |-> "unset", size |-> 0, hotspot |-> 0]

\* _load_cursor: the cursor stored in zoom_cursor.
load_cursor(files, dpr, null) ==
    LET r    == screen_dpr(dpr)
        size == cursor_icon_size(files, r)
    IN  IF size \in files /\ ~null
        THEN [kind |-> "pixmap", size |-> size,
              hotspot |-> (size * r[2]) \div (4 * r[1])]
        ELSE SystemCursor

ScreenScales == {Rat(k, 2) : k \in 2..MaxScreenScaleHalves} \cup {None}

(***************************************************************************)
(* Initial state: ScrubbyZoomExtension.__init__.                           *)
(***************************************************************************)
Init ==
    /\ zoom_mode_active = FALSE
    /\ is_dragging = FALSE
    /\ drag_start_x = 0
    /\ active_view = NoView
    /\ initial_zoom_scale = <<1, 1>>
    /\ last_set_zoom_scale = None
    /\ document_zoom_cache = [d \in DocIds |-> None]
    /\ filter_installed = FALSE
    /\ override_cursors = 0
    /\ install_calls = 0
    /\ last_event = NoEvent
    /\ ret = FALSE
    /\ pushed = None
    /\ move_x = 0
    /\ est = NoQuery
    /\ drag_dropped = FALSE
    /\ drag_doc = NoDoc
    /\ ui_scan = NoScan
    /\ icon_files = AllSizes
    /\ device_pixel_ratio = <<1, 1>>
    /\ pixmap_null = FALSE
    /\ zoom_cursor = load_cursor(icon_files, device_pixel_ratio, pixmap_null)

(***************************************************************************)
(* Mode life cycle.                                                        *)
(***************************************************************************)
handlerVars == <<zoom_mode_active, is_dragging, drag_start_x, active_view,
                 initial_zoom_scale, last_set_zoom_scale, document_zoom_cache,
                 filter_installed, override_cursors, install_calls,
                 pushed, move_x, est>>

\* The handler neither queries the estimator nor calls canvas.setZoomLevel.
NoHostCalls == pushed' = None /\ move_x' = 0 /\ est' = NoQuery

\* activate_zoom_mode without the test of zoom_mode_active.
activate_zoom_mode_again(has_doc) ==
    IF ~has_doc
    THEN UNCHANGED <<pluginVars, override_cursors, install_calls>>
    ELSE /\ zoom_mode_active' = TRUE
         /\ is_dragging' = FALSE
         /\ active_view' = NoView
         /\ last_set_zoom_scale' = None
         /\ override_cursors' = override_cursors + 1
         /\ install_calls' = IF filter_installed THEN install_calls
                                                ELSE install_calls + 1
         /\ filter_installed' = TRUE
         /\ UNCHANGED <<drag_start_x, initial_zoom_scale, document_zoom_cache>>

\* activate_zoom_mode without the test of filter_installed.
activate_zoom_mode_reinstall(has_doc) ==
    IF ~has_doc \/ zoom_mode_active
    THEN UNCHANGED <<pluginVars, override_cursors, install_calls>>
    ELSE /\ zoom_mode_active' = TRUE
         /\ is_dragging' = FALSE
         /\ active_view' = NoView
         /\ last_set_zoom_scale' = None
         /\ override_cursors' = override_cursors + 1
         /\ install_calls' = install_calls + 1
         /\ filter_installed' = TRUE
         /\ UNCHANGED <<drag_start_x, initial_zoom_scale, document_zoom_cache>>

\* activate_zoom_mode; has_doc is the answer of _has_active_document.
activate_zoom_mode(has_doc) ==
    IF ~has_doc \/ zoom_mode_active
    THEN UNCHANGED <<pluginVars, override_cursors, install_calls>>
    ELSE /\ zoom_mode_active' = TRUE
         /\ is_dragging' = FALSE
         /\ active_view' = NoView
         /\ last_set_zoom_scale' = None
         /\ override_cursors' = override_cursors + 1
         /\ install_calls' = IF filter_installed THEN install_calls
                                                ELSE install_calls + 1
         /\ filter_installed' = TRUE
         /\ UNCHANGED <<drag_start_x, initial_zoom_scale, document_zoom_cache>>

\* deactivate_zoom_mode that leaves is_dragging alone.
deactivate_zoom_mode_still_dragging ==
    IF ~zoom_mode_active
    THEN UNCHANGED <<pluginVars, override_cursors, install_calls>>
    ELSE /\ zoom_mode_active' = FALSE
         /\ active_view' = NoView
         /\ override_cursors' = override_cursors - 1
         /\ UNCHANGED <<is_dragging, drag_start_x, initial_zoom_scale,
                        last_set_zoom_scale, document_zoom_cache,
                        filter_installed, install_calls>>

\* deactivate_zoom_mode that does not restore the override cursor.
deactivate_zoom_mode_no_restore ==
    IF ~zoom_mode_active
    THEN UNCHANGED <<pluginVars, override_cursors, install_calls>>
    ELSE /\ zoom_mode_active' = FALSE
         /\ is_dragging' = FALSE
         /\ active_view' = NoView
         /\ UNCHANGED <<drag_start_x, initial_zoom_scale, last_set_zoom_scale,
                        document_zoom_cache, filter_installed,
                        override_cursors, install_calls>>

deactivate_zoom_mode ==
    IF ~zoom_mode_active
    THEN UNCHANGED <<pluginVars, override_cursors, install_calls>>
    ELSE /\ zoom_mode_active' = FALSE
         /\ is_dragging' = FALSE
         /\ active_view' = NoView
         /\ override_cursors' = override_cursors - 1
         /\ UNCHANGED <<drag_start_x, initial_zoom_scale, last_set_zoom_scale,
                        document_zoom_cache, filter_installed, install_calls>>

(***************************************************************************)
(* Drag and zoom.  h is the record of the host's answers to the calls the  *)
(* handler makes.                                                          *)
(***************************************************************************)
\* The guard of start_drag without the test of _has_active_document.
cannot_start_drag_pos_only(h) == ~h.has_pos

\* line 377: no active document, or an event without a global position.
cannot_start_drag(h) == ~h.has_doc \/ ~h.has_pos

start_drag(h) ==
    IF cannot_start_drag(h)
    THEN deactivate_zoom_mode /\ NoHostCalls
    ELSE LET q == Query(h.view, h.ui_scale, h.zoomLevel, h.resolution,
                        h.doc_id, document_zoom_cache)
             zoom_scale == q.result
         IN  /\ is_dragging' = TRUE
             /\ drag_start_x' = h.x
             /\ active_view' = h.view
             /\ est' = q
             /\ document_zoom_cache' =
                    IF h.doc_id # NoDoc
                    THEN [document_zoom_cache EXCEPT ![h.doc_id] = zoom_scale]
                    ELSE document_zoom_cache
             /\ initial_zoom_scale' = zoom_scale
             /\ last_set_zoom_scale' = zoom_scale
             /\ pushed' = None
             /\ move_x' = 0
             /\ UNCHANGED <<zoom_mode_active, filter_installed, override_cursors,
                            install_calls>>

\* update_zoom that scales the last pushed value instead of the initial one.
update_zoom_incremental(h) ==
    IF ~is_dragging \/ ~h.has_pos \/ active_view = NoView \/ ~h.has_canvas
    THEN UNCHANGED <<pluginVars, override_cursors, install_calls>> /\ NoHostCalls
    ELSE LET new_scale == new_zoom_scale(last_set_zoom_scale, drag_start_x, h.x)
         IN  /\ pushed' = new_scale
             /\ move_x' = h.x
             /\ last_set_zoom_scale' = new_scale
             /\ document_zoom_cache' =
                    IF h.doc_id # NoDoc
                    THEN [document_zoom_cache EXCEPT ![h.doc_id] = new_scale]
                    ELSE document_zoom_cache
             /\ est' = NoQuery
             /\ UNCHANGED <<zoom_mode_active, is_dragging, drag_start_x,
                            active_view, initial_zoom_scale, filter_installed,
                            override_cursors, install_calls>>

update_zoom(h) ==
    IF ~is_dragging \/ ~h.has_pos \/ active_view = NoView \/ ~h.has_canvas
    THEN UNCHANGED <<pluginVars, override_cursors, install_calls>> /\ NoHostCalls
    ELSE LET new_scale == new_zoom_scale(initial_zoom_scale, drag_start_x, h.x)
         IN  /\ pushed' = new_scale
             /\ move_x' = h.x
             /\ last_set_zoom_scale' = new_scale
             /\ document_zoom_cache' =
                    IF h.doc_id # NoDoc
                    THEN [document_zoom_cache EXCEPT ![h.doc_id] = new_scale]
                    ELSE document_zoom_cache
             /\ est' = NoQuery
             /\ UNCHANGED <<zoom_mode_active, is_dragging, drag_start_x,
                            active_view, initial_zoom_scale, filter_installed,
                            override_cursors, install_calls>>

end_drag ==
    /\ is_dragging' = FALSE
    /\ active_view' = NoView
    /\ UNCHANGED <<zoom_mode_active, drag_start_x, initial_zoom_scale,
                   last_set_zoom_scale, document_zoom_cache, filter_installed,
                   override_cursors, install_calls>>

(***************************************************************************)
(* ZoomEventFilter.eventFilter.                                            *)
(***************************************************************************)
\* The filter without the test of line 37.
filter_never_passes_through == FALSE

\* line 37: the filter lets everything through while the mode is off.
filter_passes_through == ~zoom_mode_active

eventFilter(event, h) ==
    /\ last_event' = event
    /\ IF filter_passes_through
       THEN ret' = FALSE /\ UNCHANGED <<pluginVars, override_cursors, install_calls>> /\ NoHostCalls
       ELSE IF event.type = "MouseButtonPress" /\ event.button = "Left"
       THEN start_drag(h) /\ ret' = TRUE
       ELSE IF event.type = "MouseMove" /\ is_dragging
       THEN update_zoom(h) /\ ret' = TRUE
       ELSE IF event.type = "MouseButtonRelease" /\ event.button = "Left"
               /\ is_dragging
       THEN end_drag /\ NoHostCalls /\ ret' = TRUE
       ELSE IF event.type = "KeyRelease" /\ ~event.autorepeat
       THEN deactivate_zoom_mode /\ NoHostCalls /\ ret' = FALSE
       ELSE ret' = FALSE /\ UNCHANGED <<pluginVars, override_cursors, install_calls>> /\ NoHostCalls

(***************************************************************************)
(* Events and commands delivered by the host.                              *)
(***************************************************************************)
\* drag_doc (not a field of the program): the document id the host reported
\* when the drag in progress started, NoDoc outside a drag.
DragDocAfter(doc_id) ==
    drag_doc' = IF is_dragging' THEN doc_id ELSE NoDoc

Buttons == {"Left", "Right"}

NoAnswers == [has_doc |-> FALSE, has_pos |-> FALSE, x |-> 0, view |-> NoView,
              ui_scale |-> None, zoomLevel |-> None, resolution |-> None,
              doc_id |-> NoDoc, has_canvas |-> FALSE]

Activate ==
    \E has_doc \in BOOLEAN :
        /\ activate_zoom_mode(has_doc)
        /\ NoHostCalls
        /\ last_event' = Ev("activate", "None", FALSE, has_doc, FALSE)
        /\ ret' = FALSE
        /\ drag_dropped' = FALSE
        /\ DragDocAfter(drag_doc)
        /\ UNCHANGED envVars

Deactivate ==
    /\ deactivate_zoom_mode
    /\ NoHostCalls
    /\ last_event' = Ev("deactivate", "None", FALSE, FALSE, FALSE)
    /\ ret' = FALSE
    /\ drag_dropped' = FALSE
    /\ DragDocAfter(drag_doc)
    /\ UNCHANGED envVars

\* A press of a button other than the left one.
PressOther ==
    /\ eventFilter(Ev("MouseButtonPress", "Right", FALSE, FALSE, FALSE),
                   NoAnswers)
    /\ drag_dropped' = FALSE
    /\ DragDocAfter(drag_doc)
    /\ UNCHANGED envVars

\* A left press for which start_drag gives up: no document or no position.
PressNoDrag ==
    \E has_doc \in BOOLEAN, has_pos \in BOOLEAN :
        /\ ~has_doc \/ ~has_pos
        /\ eventFilter(Ev("MouseButtonPress", "Left", FALSE, has_doc, has_pos),
                       [NoAnswers EXCEPT !.has_doc = has_doc,
                                         !.has_pos = has_pos])
        /\ drag_dropped' = FALSE
        /\ DragDocAfter(drag_doc)
        /\ UNCHANGED envVars

\* A left press with a document and a position: the host answers
\* _get_current_view, the estimator's reads and _get_document_id (the same
\* document for both calls of one handler).
PressDrag ==
    \E x \in PressXs, view \in Views \cup {NoView} :
    \E ui_scale \in HostUiScales,
       zoomLevel \in IF view = NoView THEN {None} ELSE HostZoomLevels,
       resolution \in IF view = NoView THEN {None} ELSE HostResolutions,
       doc_id \in DocIds \cup {NoDoc} :
        /\ eventFilter(Ev("MouseButtonPress", "Left", FALSE, TRUE, TRUE),
                       [has_doc |-> TRUE, has_pos |-> TRUE, x |-> x,
                        view |-> view, ui_scale |-> ui_scale,
                        zoomLevel |-> zoomLevel, resolution |-> resolution,
                        doc_id |-> doc_id,
                        has_canvas |-> FALSE])
        /\ drag_dropped' = FALSE
        /\ DragDocAfter(doc_id)
        /\ UNCHANGED envVars

Move ==
    \E has_pos \in BOOLEAN, x \in XGrid, has_canvas \in BOOLEAN,
       doc_id \in DocIds \cup {NoDoc} :
        /\ ~has_pos => x = 0 /\ ~has_canvas /\ doc_id = NoDoc
        /\ ~has_canvas => doc_id = NoDoc
        /\ eventFilter(Ev("MouseMove", "None", FALSE, FALSE, has_pos),
                       [NoAnswers EXCEPT !.has_pos = has_pos, !.x = x,
                                         !.has_canvas = has_canvas,
                                         !.doc_id = doc_id])
        /\ drag_dropped' = drag_dropped
        /\ DragDocAfter(drag_doc)
        /\ UNCHANGED envVars

Release ==
    \E button \in Buttons :
        /\ eventFilter(Ev("MouseButtonRelease", button, FALSE, FALSE, FALSE),
                       NoAnswers)
        /\ drag_dropped' = FALSE
        /\ DragDocAfter(drag_doc)
        /\ UNCHANGED envVars

\* drag_dropped (not a field of the program): a non-auto-repeat key release
\* ended a drag and only pointer moves have arrived since.
KeyRelease ==
    \E autorepeat \in BOOLEAN :
        /\ eventFilter(Ev("KeyRelease", "None", autorepeat, FALSE, FALSE),
                       NoAnswers)
        /\ drag_dropped' = (zoom_mode_active /\ is_dragging /\ ~autorepeat)
        /\ DragDocAfter(drag_doc)
        /\ UNCHANGED envVars

\* Any other event type (key press, wheel, paint, ...).
OtherEvent ==
    /\ eventFilter(Ev("Other", "None", FALSE, FALSE, FALSE), NoAnswers)
    /\ drag_dropped' = FALSE
    /\ DragDocAfter(drag_doc)
    /\ UNCHANGED envVars

Next ==
    \/ Activate
    \/ Deactivate
    \/ PressOther
    \/ PressNoDrag
    \/ PressDrag
    \/ Move
    \/ Release
    \/ KeyRelease
    \/ OtherEvent

Spec == Init /\ [][Next]_vars

(***************************************************************************)
(* The zoom estimator on its own: the cache is drawn at the start, every   *)
(* step is one query with inputs drawn from the sets above.                *)
(***************************************************************************)
CachedScales == {None, <<1, 2>>, <<4, 1>>}

EstInit ==
    /\ zoom_mode_active = FALSE
    /\ is_dragging = FALSE
    /\ drag_start_x = 0
    /\ active_view = NoView
    /\ initial_zoom_scale = <<1, 1>>
    /\ last_set_zoom_scale = None
    /\ document_zoom_cache \in [DocIds -> CachedScales]
    /\ filter_installed = FALSE
    /\ override_cursors = 0
    /\ install_calls = 0
    /\ last_event = NoEvent
    /\ ret = FALSE
    /\ pushed = None
    /\ move_x = 0
    /\ est = NoQuery
    /\ drag_dropped = FALSE
    /\ drag_doc = NoDoc
    /\ ui_scan = NoScan
    /\ icon_files = AllSizes
    /\ device_pixel_ratio = <<1, 1>>
    /\ pixmap_null = FALSE
    /\ zoom_cursor = load_cursor(icon_files, device_pixel_ratio, pixmap_null)

EstQuery ==
    \E view \in Views \cup {NoView}, ui_scale \in UiScales,
       zoomLevel \in RawZooms, resolution \in DocDpis,
       doc_id \in DocIds \cup {NoDoc} :
        /\ ~est.called
        /\ est' = Query(view, ui_scale, zoomLevel, resolution, doc_id,
                        document_zoom_cache)
        /\ UNCHANGED <<pluginVars, override_cursors, install_calls, last_event,
                       ret, pushed, move_x, drag_dropped, drag_doc,
                       envVars>>

EstNext == EstQuery

SpecEst == EstInit /\ [][EstNext]_vars

(***************************************************************************)
(* The UI scan on its own: the window, the candidates' texts and the title *)
(* are drawn at the start, the one step is the scan.                       *)
(***************************************************************************)
UiInit ==
    /\ zoom_mode_active = FALSE
    /\ is_dragging = FALSE
    /\ drag_start_x = 0
    /\ active_view = NoView
    /\ initial_zoom_scale = <<1, 1>>
    /\ last_set_zoom_scale = None
    /\ document_zoom_cache = [d \in DocIds |-> None]
    /\ filter_installed = FALSE
    /\ override_cursors = 0
    /\ install_calls = 0
    /\ last_event = NoEvent
    /\ ret = FALSE
    /\ pushed = None
    /\ move_x = 0
    /\ est = NoQuery
    /\ drag_dropped = FALSE
    /\ drag_doc = NoDoc
    /\ ui_scan \in [called : {FALSE}, has_window : BOOLEAN,
                     candidates : CandidateLists, title : Titles,
                     result : {None}]
    /\ icon_files = AllSizes
    /\ device_pixel_ratio = <<1, 1>>
    /\ pixmap_null = FALSE
    /\ zoom_cursor = load_cursor(icon_files, device_pixel_ratio, pixmap_null)

UiScan ==
    /\ ~ui_scan.called
    /\ ui_scan' = [ui_scan EXCEPT
                      !.called = TRUE,
                      !.result = zoom_scale_from_ui(ui_scan.has_window,
                                     ui_scan.candidates, ui_scan.title)]
    /\ UNCHANGED <<pluginVars, override_cursors, install_calls, last_event,
                   ret, pushed, move_x, est, drag_dropped, drag_doc,
                   icon_files, device_pixel_ratio, pixmap_null, zoom_cursor>>

UiNext == UiScan

SpecUi == UiInit /\ [][UiNext]_vars

(***************************************************************************)
(* The cursor on its own: the icon files, the screen scale and whether the *)
(* chosen file loads are drawn at the start, the one step is _load_cursor  *)
(* as __init__ calls it.                                                   *)
(***************************************************************************)
CursorInit ==
    /\ zoom_mode_active = FALSE
    /\ is_dragging = FALSE
    /\ drag_start_x = 0
    /\ active_view = NoView
    /\ initial_zoom_scale = <<1, 1>>
    /\ last_set_zoom_scale = None
    /\ document_zoom_cache = [d \in DocIds |-> None]
    /\ filter_installed = FALSE
    /\ override_cursors = 0
    /\ install_calls = 0
    /\ last_event = NoEvent
    /\ ret = FALSE
    /\ pushed = None
    /\ move_x = 0
    /\ est = NoQuery
    /\ drag_dropped = FALSE
    /\ drag_doc = NoDoc
    /\ ui_scan = NoScan
    /\ icon_files \in SUBSET AllSizes
    /\ device_pixel_ratio \in ScreenScales
    /\ pixmap_null \in BOOLEAN
    /\ zoom_cursor = NoCursor

LoadCursor ==
    /\ zoom_cursor = NoCursor
    /\ zoom_cursor' = load_cursor(icon_files, device_pixel_ratio, pixmap_null)
    /\ UNCHANGED <<pluginVars, override_cursors, install_calls, last_event,
                   ret, pushed, move_x, est, drag_dropped, drag_doc,
                   ui_scan, icon_files, device_pixel_ratio, pixmap_null>>

CursorNext == LoadCursor

SpecCursor == CursorInit /\ [][CursorNext]_vars

(***************************************************************************)
(* Properties.                                                             *)
(***************************************************************************)
InRange(scale) == Leq(MinScale, scale) /\ Leq(scale, MaxScale)

Idle == ~zoom_mode_active /\ ~is_dragging /\ active_view = NoView

EventTypes == {"MouseButtonPress", "MouseMove", "MouseButtonRelease",
               "KeyRelease", "Other"}

\* C1: in every reachable state, is_dragging implies zoom_mode_active and
\* a non-null active_view.
C1_DraggingHasModeAndView ==
    is_dragging => (zoom_mode_active /\ active_view # NoView)

\* C2: initial_zoom_scale, last_set_zoom_scale (when set) and every entry
\* of document_zoom_cache always lie in [0.01, 256.0].
C2_ScalesAlwaysClamped ==
    /\ InRange(initial_zoom_scale)
    /\ last_set_zoom_scale # None => InRange(last_set_zoom_scale)
    /\ \A d \in DocIds :
           document_zoom_cache[d] # None => InRange(document_zoom_cache[d])

\* C3: every value update_zoom passes to setZoomLevel is within
\* [0.01, 256.0].
C3_PushedInRange ==
    pushed # None => InRange(pushed)

\* C3 witness: a pointer move pushed the upper bound although the scale
\* computed from an in-range initial scale was above it.
C3_Witness ==
    /\ last_event.type = "MouseMove"
    /\ pushed = MaxScale
    /\ initial_zoom_scale = <<100, 1>>

\* C4: activate_zoom_mode invoked while the mode is active, or while no
\* document is open, changes nothing of the session state, the cache and
\* the override-cursor stack.
C4_ActivateNoOp ==
    [][(last_event'.type = "activate"
          /\ (zoom_mode_active \/ ~last_event'.has_doc))
       => UNCHANGED <<zoom_mode_active, is_dragging, active_view,
                      drag_start_x, initial_zoom_scale, last_set_zoom_scale,
                      document_zoom_cache, override_cursors>>]_vars

\* C4 witness: the activation command arrived during a drag, which goes on.
C4_Witness ==
    /\ last_event.type = "activate"
    /\ last_event.has_doc
    /\ is_dragging
    /\ last_set_zoom_scale # None

\* C5: a non-auto-repeat key release while Dragging leads to Idle, and a
\* pointer move that follows it is not consumed and pushes no zoom.
C5_KeyReleaseEndsDrag ==
    [][/\ (is_dragging /\ last_event'.type = "KeyRelease"
              /\ ~last_event'.autorepeat)
          => (~zoom_mode_active' /\ ~is_dragging' /\ active_view' = NoView)
       /\ (drag_dropped /\ last_event'.type = "MouseMove")
          => (ret' = FALSE /\ pushed' = None
              /\ UNCHANGED <<last_set_zoom_scale, document_zoom_cache>>)]_vars

\* C5 witness: a pointer move arrived after a key release ended a drag.
C5_Witness ==
    /\ drag_dropped
    /\ last_event.type = "MouseMove"
    /\ last_event.has_pos

\* C6: eventFilter returns True only if zoom_mode_active held when the
\* event arrived; with zoom_mode_active false it returns False for every
\* event type and changes neither the session state nor the cache.
C6_ConsumedOnlyWhileActive ==
    [][/\ (last_event'.type \in EventTypes /\ ret' = TRUE)
          => zoom_mode_active
       /\ (last_event'.type \in EventTypes /\ ~zoom_mode_active)
          => (ret' = FALSE /\ pushed' = None /\ UNCHANGED pluginVars)]_vars

\* C6 witness: a left press with a document and a position arrived while
\* the filter was installed and the mode was off.
C6_Witness ==
    /\ filter_installed
    /\ ~zoom_mode_active
    /\ last_event.type = "MouseButtonPress"
    /\ last_event.button = "Left"
    /\ last_event.has_doc
    /\ last_event.has_pos

\* C7: setOverrideCursor calls minus restoreOverrideCursor calls is 1 while
\* zoom_mode_active and 0 otherwise, and active_view is null whenever
\* zoom_mode_active is false.
C7_CursorBalanced ==
    /\ override_cursors = (IF zoom_mode_active THEN 1 ELSE 0)
    /\ ~zoom_mode_active => active_view = NoView

\* C7 witness: a key release deactivated the mode in the middle of a drag.
C7_Witness ==
    /\ drag_dropped
    /\ last_event.type = "KeyRelease"
    /\ override_cursors = 0

\* The estimator's corrected candidate, raw / (dpi / 72).
Corrected(q) == Div(q.raw, Div(q.dpi, REFERENCE_DPI))

Dist(a, b) == Abs(Sub(a, b))

\* C8: with a raw value and a positive UI scale, the estimator returns
\* whichever of raw and corrected is closer to the UI scale, and corrected
\* when both are equally close.
C8_CloserToUi ==
    (est.called /\ est.raw # None /\ est.ui # None /\ Lt(Zero, est.ui))
    => LET c  == Corrected(est)
           dr == Dist(est.raw, est.ui)
           dc == Dist(c, est.ui)
       IN  /\ est.result \in {est.raw, c}
           /\ Leq(Dist(est.result, est.ui), dr)
           /\ Leq(Dist(est.result, est.ui), dc)
           /\ dr = dc => est.result = c

\* C8 witness: raw and corrected differ and are equally far from the UI
\* scale.
C8_Witness ==
    /\ est.called /\ est.raw # None /\ est.ui # None /\ Lt(Zero, est.ui)
    /\ Corrected(est) # est.raw
    /\ Dist(est.raw, est.ui) = Dist(Corrected(est), est.ui)
    /\ est.result = Corrected(est)

NoUiFarFrom72(q) ==
    /\ q.called /\ q.raw # None /\ q.ui = None
    /\ Lt(DpiEpsilon, Dist(q.dpi, REFERENCE_DPI))

\* C9 as stated: without a UI scale and with a DPI away from 72 the
\* estimator returns corrected, except raw when raw > 10.0 and
\* corrected <= 10.0, and raw when corrected < 0.01 and raw >= 0.01.
C9_AsStated ==
    NoUiFarFrom72(est)
    => LET c == Corrected(est)
       IN  est.result =
             IF \/ Lt(LargeZoom, est.raw) /\ Leq(c, LargeZoom)
                \/ Lt(c, MinScale) /\ Leq(MinScale, est.raw)
             THEN est.raw ELSE c

\* C9 amended: without a UI scale and with a DPI away from 72 the
\* estimator returns corrected, except that it returns raw when
\* corrected < 0.01 and 0.01 <= raw <= 10.0; when raw > 10.0 and
\* corrected <= 10.0 it returns corrected.
C9_CorrectedUnlessTiny ==
    NoUiFarFrom72(est)
    => LET c == Corrected(est)
       IN  est.result =
             IF Lt(c, MinScale) /\ Leq(MinScale, est.raw)
                /\ Leq(est.raw, LargeZoom)
             THEN est.raw ELSE c

\* C9 witness: raw > 10.0, corrected < 0.01, and corrected was returned.
C9_Witness ==
    /\ NoUiFarFrom72(est)
    /\ Lt(LargeZoom, est.raw)
    /\ Lt(Corrected(est), MinScale)
    /\ est.result = Corrected(est)
    /\ est.result # est.raw

\* C10: the estimator never returns a value <= 0.
C10_ResultPositive ==
    est.called => Lt(Zero, est.result)

\* C11: without a raw value the estimator returns the cached scale of the
\* current document if there is one, otherwise the UI scale if one was
\* read, otherwise 1.0, and the query leaves the cache unchanged.
C11_FallbackOrder ==
    [][(est'.called /\ est'.raw = None)
       => /\ est'.cached # None => est'.result = est'.cached
          /\ (est'.cached = None /\ est'.ui # None) => est'.result = est'.ui
          /\ (est'.cached = None /\ est'.ui = None) => est'.result = <<1, 1>>
          /\ UNCHANGED document_zoom_cache]_vars

\* C11 witness: no raw value, a cache entry and a different UI scale; the
\* cache entry was returned.
C11_Witness ==
    /\ est.called /\ est.raw = None
    /\ est.cached # None /\ est.ui # None /\ est.ui # est.cached
    /\ est.result = est.cached
    /\ \E d \in DocIds : document_zoom_cache[d] = est.cached

\* C12: while Dragging, a pointer move to the drag-start X pushes exactly
\* initial_zoom_scale.
C12_ZeroDeltaPushesInitial ==
    (pushed # None /\ move_x = drag_start_x) => pushed = initial_zoom_scale

\* C13: right after update_zoom pushed a scale, last_set_zoom_scale and the
\* cache entry of the document being zoomed equal the pushed value, also
\* when the host reports no document id.
C13_CacheMatchesPush ==
    pushed # None
    => /\ last_set_zoom_scale = pushed
       /\ IF drag_doc # NoDoc
          THEN document_zoom_cache[drag_doc] = pushed
          ELSE \E d \in DocIds : document_zoom_cache[d] = pushed

\* C14: a left press in the active mode for which the host has no active
\* document, or which has no global position, starts no drag and forces
\* deactivation: Idle, cursor restored, estimator, cache and zoom setter
\* untouched.
C14_PressWithoutDocDeactivates ==
    [][(zoom_mode_active /\ last_event'.type = "MouseButtonPress"
          /\ last_event'.button = "Left"
          /\ (~last_event'.has_doc \/ ~last_event'.has_pos))
       => /\ ~zoom_mode_active' /\ ~is_dragging' /\ active_view' = NoView
          /\ override_cursors' = 0
          /\ ~est'.called
          /\ pushed' = None
          /\ UNCHANGED <<document_zoom_cache, initial_zoom_scale,
                         last_set_zoom_scale, drag_start_x>>]_vars

\* C14 witness: a left press without a document was consumed and left the
\* machine Idle with the cursor restored.
C14_Witness ==
    /\ last_event.type = "MouseButtonPress" /\ last_event.button = "Left"
    /\ ~last_event.has_doc /\ last_event.has_pos
    /\ ret = TRUE
    /\ Idle /\ override_cursors = 0

\* initial * 2^k clamped to [0.01, 256.0].
OctaveScale(initial, k) ==
    LET v == IF k >= 0 THEN Mul(initial, <<TwoTo(k), 1>>)
             ELSE Div(initial, <<TwoTo(0 - k), 1>>)
    IN  IF Lt(v, MinScale) THEN MinScale
        ELSE IF Lt(MaxScale, v) THEN MaxScale
        ELSE v

\* C16: a drag start queries the estimator once and takes its result as
\* initial_zoom_scale; a pointer move never queries it and changes neither
\* initial_zoom_scale nor drag_start_x; the scale a move pushes is a
\* function of the pointer X, drag_start_x and initial_zoom_scale alone.
C16_PositionalOnly ==
    [][/\ (last_event'.type = "MouseButtonPress" /\ is_dragging' /\ ret'
              /\ last_event'.has_doc /\ last_event'.has_pos)
          => (est'.called /\ initial_zoom_scale' = est'.result)
       /\ last_event'.type = "MouseMove"
          => (~est'.called
              /\ UNCHANGED <<initial_zoom_scale, drag_start_x>>)
       /\ pushed' # None
          => pushed' = OctaveScale(initial_zoom_scale,
                           (move_x' - drag_start_x) \div zoom_sensitivity)]_vars

\* C16 witness: a move of a drag, one sensitivity right of the drag start,
\* pushed a scale other than the initial one without an estimator query.
C16_Witness ==
    /\ last_event.type = "MouseMove" /\ is_dragging
    /\ pushed # None /\ pushed # initial_zoom_scale
    /\ move_x = drag_start_x + zoom_sensitivity
    /\ ~est.called

\* C17: a displacement of k whole sensitivities pushes
\* clamp(initial * 2^k, 0.01, 256.0); two sensitivities push initial * 4
\* when that is within the range.
C17_OctaveSteps ==
    pushed # None
    => \A k \in (0 - 2 * MaxOctave - 1)..(2 * MaxOctave + 1) :
         move_x - drag_start_x = k * zoom_sensitivity
         => /\ pushed = OctaveScale(initial_zoom_scale, k)
            /\ (k = 2 /\ InRange(Mul(initial_zoom_scale, <<4, 1>>)))
               => pushed = Mul(initial_zoom_scale, <<4, 1>>)

\* C17 witness: a drag of two sensitivities to the right pushed four times
\* the initial scale.
C17_Witness ==
    /\ pushed # None
    /\ move_x - drag_start_x = 2 * zoom_sensitivity
    /\ pushed = Mul(initial_zoom_scale, <<4, 1>>)
    /\ InRange(pushed)

\* C19: installEventFilter is called by the first successful activation
\* only, and filter_installed never returns to false.
C19_FilterInstalledOnce ==
    [][/\ filter_installed => filter_installed'
       /\ install_calls' <= 1
       /\ install_calls' # install_calls
          => (last_event'.type = "activate" /\ ~filter_installed
              /\ install_calls = 0 /\ zoom_mode_active')]_vars

\* C19 witness: the mode was activated again after a drag of an earlier
\* activation, with the filter installed once.
C19_Witness ==
    /\ last_event.type = "activate" /\ zoom_mode_active
    /\ last_set_zoom_scale = None
    /\ \E d \in DocIds : document_zoom_cache[d] # None
    /\ filter_installed /\ install_calls = 1

\* C20: a pointer move of a drag changes no cache entry other than the one
\* of the document whose view was captured at drag start, and no step
\* removes a cache entry.
C20_OnlyDragDocWritten ==
    [][/\ (is_dragging /\ drag_doc # NoDoc /\ last_event'.type = "MouseMove")
          => \A d \in DocIds \ {drag_doc} :
                 document_zoom_cache'[d] = document_zoom_cache[d]
       /\ \A d \in DocIds :
              document_zoom_cache[d] # None => document_zoom_cache'[d] # None]_vars

\* Whether a candidate's text is a percent token whose number parses.
WellFormed(text) ==
    /\ text # NoText /\ text # <<>>
    /\ match_percent(text) # NoMatch
    /\ float_of(match_percent(text)) # ValueError

\* C15: a scan of a window returns the value of the first candidate whose
\* text is a well-formed percent token, skipping every candidate without
\* text, without the pattern or with a number that does not parse; only
\* when no candidate is well formed does the window title decide.
C15_SkipsMalformed ==
    (ui_scan.called /\ ui_scan.has_window)
    => LET cs   == ui_scan.candidates
           good == {i \in 1..Len(cs) : WellFormed(cs[i])}
       IN  IF good # {}
           THEN LET i == CHOOSE g \in good : \A h \in good : g <= h
                IN  ui_scan.result
                      = Div(float_of(match_percent(cs[i])), <<100, 1>>)
           ELSE LET t == title_percent(ui_scan.title)
                IN  ui_scan.result = IF t = ValueError THEN None ELSE t

\* C18: the cursor is built from the smallest present icon size >= the
\* device-pixel-scaled 24px target; if there is none, from the present size
\* nearest to the target; the system cursor is used only when no icon file
\* is present (or the chosen file does not load).
C18_SmallestPresentAtLeastTarget ==
    (zoom_cursor # NoCursor /\ ~pixmap_null)
    => LET target  == target_physical_size(screen_dpr(device_pixel_ratio))
           atleast == {z \in icon_files : z >= target}
       IN  IF icon_files = {} THEN zoom_cursor = SystemCursor
           ELSE /\ zoom_cursor.kind = "pixmap"
                /\ zoom_cursor.size
                     = IF atleast # {}
                       THEN CHOOSE z \in atleast : \A y \in atleast : z <= y
                       ELSE CHOOSE z \in icon_files : \A y \in icon_files : y <= z

====
